---- MODULE Spec2Model ----
(***************************************************************************)
(* A model of the TFTP packet codec of tftp-packet-rs (src/src/lib.rs and  *)
(* src/src/parsing.rs).  Bytes are integers 0..255, byte slices and Rust    *)
(* Strings are sequences of bytes (a Rust String is its UTF-8 bytes, and   *)
(* from_utf8 is a validating view of them), enum variants are TLA+ strings *)
(* carrying the variant's name.                                            *)
(***************************************************************************)
EXTENDS Integers, Sequences, FiniteSets, TLC

(***************************************************************************)
(* Bounds of the model.                                                    *)
(***************************************************************************)
\* longest text field (filename, mode, message) built from TextBytes
MaxText == 2
\* how far below and above the 512-byte limit the long DATA payloads range
PadSlack == 2
\* u16 values 0..MaxNum are tried by the enum conversions, with a few large ones
MaxNum == 9

(***************************************************************************)
(* Program constants.                                                      *)
(***************************************************************************)
\* lib.rs:239  if data.len() > 512
MaxDataLen == 512
\* lib.rs:251  InvalidPacketLength(4)
AckLen == 4

(***************************************************************************)
(* Enumerations (lib.rs:62-68, 103-107, 146-155), in declaration order.    *)
(***************************************************************************)
OpcodeDecl == <<"RRQ", "WRQ", "DATA", "ACK", "ERROR">>

ModeDecl == <<"Netascii", "Octet", "Mail">>

ErrorCodeDecl ==
    <<"NotDefined", "FileNotFound", "AccessViolation", "DiskFull",
      "IllegalOperation", "UnknownTransferId", "FileAlreadyExists", "NoSuchUser">>

Range(s) == {s[i] : i \in 1..Len(s)}

\* `x as u16` of a field-less enum without explicit discriminants: the
\* zero-based position of the variant in the declaration.
AsU16(decl, x) == (CHOOSE i \in 1..Len(decl) : decl[i] = x) - 1

Opcode_as_u16(x) == AsU16(OpcodeDecl, x)

ErrorCode_as_u16(x) == AsU16(ErrorCodeDecl, x)

\* conversion results: Ok(variant) or Err(&'static str)
ConvOk(v) == [tag |-> "Ok", value |-> v]

ConvErr(m) == [tag |-> "Err", msg |-> m]

\* Opcode::try_from keyed by the enum's own numbering 0..4
Opcode_try_from_zero_based(value) ==
    CASE value = 0 -> ConvOk("RRQ")
      [] value = 1 -> ConvOk("WRQ")
      [] value = 2 -> ConvOk("DATA")
      [] value = 3 -> ConvOk("ACK")
      [] value = 4 -> ConvOk("ERROR")
      [] OTHER -> ConvErr("Invalid opcode: {}")

\* impl TryFrom<u16> for Opcode
Opcode_try_from(value) ==
    CASE value = 1 -> ConvOk("RRQ")
      [] value = 2 -> ConvOk("WRQ")
      [] value = 3 -> ConvOk("DATA")
      [] value = 4 -> ConvOk("ACK")
      [] value = 5 -> ConvOk("ERROR")
      [] OTHER -> ConvErr("Invalid opcode: {}")

\* ErrorCode::try_from without the arm of the last variant
ErrorCode_try_from_short(value) ==
    CASE value = 0 -> ConvOk("NotDefined")
      [] value = 1 -> ConvOk("FileNotFound")
      [] value = 2 -> ConvOk("AccessViolation")
      [] value = 3 -> ConvOk("DiskFull")
      [] value = 4 -> ConvOk("IllegalOperation")
      [] value = 5 -> ConvOk("UnknownTransferId")
      [] value = 6 -> ConvOk("FileAlreadyExists")
      [] OTHER -> ConvErr("Invalid error code")

\* impl TryFrom<u16> for ErrorCode
ErrorCode_try_from(value) ==
    CASE value = 0 -> ConvOk("NotDefined")
      [] value = 1 -> ConvOk("FileNotFound")
      [] value = 2 -> ConvOk("AccessViolation")
      [] value = 3 -> ConvOk("DiskFull")
      [] value = 4 -> ConvOk("IllegalOperation")
      [] value = 5 -> ConvOk("UnknownTransferId")
      [] value = 6 -> ConvOk("FileAlreadyExists")
      [] value = 7 -> ConvOk("NoSuchUser")
      [] OTHER -> ConvErr("Invalid error code")

\* the ASCII bytes of the three mode string literals
StrNetascii == <<110, 101, 116, 97, 115, 99, 105, 105>>

StrOctet == <<111, 99, 116, 101, 116>>

StrMail == <<109, 97, 105, 108>>

\* Mode::try_from matching without regard to ASCII case
ToLower(s) == [i \in 1..Len(s) |-> IF s[i] >= 65 /\ s[i] <= 90 THEN s[i] + 32 ELSE s[i]]

Mode_try_from_ignore_case(value) ==
    CASE ToLower(value) = StrNetascii -> ConvOk("Netascii")
      [] ToLower(value) = StrOctet -> ConvOk("Octet")
      [] ToLower(value) = StrMail -> ConvOk("Mail")
      [] OTHER -> ConvErr("Invalid mode")

\* impl TryFrom<&str> for Mode
Mode_try_from(value) ==
    CASE value = StrNetascii -> ConvOk("Netascii")
      [] value = StrOctet -> ConvOk("Octet")
      [] value = StrMail -> ConvOk("Mail")
      [] OTHER -> ConvErr("Invalid mode")

\* impl Into<&str> for &Mode, and Mode::as_str which calls it
Mode_as_str(m) ==
    CASE m = "Netascii" -> StrNetascii
      [] m = "Octet" -> StrOctet
      [] m = "Mail" -> StrMail

(***************************************************************************)
(* Byte helpers.                                                           *)
(***************************************************************************)
Drop(s, n) == SubSeq(s, n + 1, Len(s))

Take(s, n) == SubSeq(s, 1, n)

\* u16::to_le_bytes
to_le_bytes(n) == <<n % 256, n \div 256>>

\* u16::to_be_bytes
to_be_bytes(n) == <<n \div 256, n % 256>>

\* std::str::from_utf8 as a validity test (the well-formed byte sequences of
\* the Unicode standard, table 3-7)
IsCont(b) == b >= 128 /\ b <= 191

RECURSIVE Utf8Valid(_)
Utf8Valid(s) ==
    IF s = <<>> THEN TRUE
    ELSE LET b == s[1]
             n == Len(s)
         IN  CASE b <= 127 -> Utf8Valid(Drop(s, 1))
               [] b >= 194 /\ b <= 223 ->
                    n >= 2 /\ IsCont(s[2]) /\ Utf8Valid(Drop(s, 2))
               [] b = 224 ->
                    n >= 3 /\ s[2] >= 160 /\ s[2] <= 191 /\ IsCont(s[3])
                    /\ Utf8Valid(Drop(s, 3))
               [] (b >= 225 /\ b <= 236) \/ b = 238 \/ b = 239 ->
                    n >= 3 /\ IsCont(s[2]) /\ IsCont(s[3]) /\ Utf8Valid(Drop(s, 3))
               [] b = 237 ->
                    n >= 3 /\ s[2] >= 128 /\ s[2] <= 159 /\ IsCont(s[3])
                    /\ Utf8Valid(Drop(s, 3))
               [] b = 240 ->
                    n >= 4 /\ s[2] >= 144 /\ s[2] <= 191 /\ IsCont(s[3])
                    /\ IsCont(s[4]) /\ Utf8Valid(Drop(s, 4))
               [] b >= 241 /\ b <= 243 ->
                    n >= 4 /\ IsCont(s[2]) /\ IsCont(s[3]) /\ IsCont(s[4])
                    /\ Utf8Valid(Drop(s, 4))
               [] b = 244 ->
                    n >= 4 /\ s[2] >= 128 /\ s[2] <= 143 /\ IsCont(s[3])
                    /\ IsCont(s[4]) /\ Utf8Valid(Drop(s, 4))
               [] OTHER -> FALSE

(***************************************************************************)
(* parsing.rs: the nom-based cursor primitives.                            *)
(***************************************************************************)
\* be_u16 (complete): Err when fewer than 2 bytes remain
take_u16(input) ==
    IF Len(input) < 2
    THEN [ok |-> FALSE, rest |-> input, value |-> 0]
    ELSE [ok |-> TRUE, rest |-> Drop(input, 2), value |-> input[1] * 256 + input[2]]

\* position of the first zero byte, Len + 1 when there is none
FirstNull(input) ==
    LET zs == {i \in 1..Len(input) : input[i] = 0}
    IN  IF zs = {} THEN Len(input) + 1
        ELSE CHOOSE i \in zs : \A j \in zs : i <= j

\* take_till(|c| c == 0) (complete): the longest prefix without a zero byte.
\* The complete variant never fails: when no byte is zero it yields the whole
\* input and an empty remainder.  The remainder starts AT the zero byte.
take_till_null(input) ==
    LET k == FirstNull(input)
    IN  [ok |-> TRUE, rest |-> Drop(input, k - 1), value |-> Take(input, k - 1)]

(***************************************************************************)
(* Results.  A parser yields Ok(value, rest), Err(PacketError) or panics.  *)
(***************************************************************************)
InvalidPacket(m) == [tag |-> "Err", kind |-> "InvalidPacket", msg |-> m]

InvalidOpcode(m) == [tag |-> "Err", kind |-> "InvalidOpcode", msg |-> m]

InvalidPacketLength(n) == [tag |-> "Err", kind |-> "InvalidPacketLength", expected |-> n]

Panic == [tag |-> "Panic"]

ParseOk(v, r) == [tag |-> "Ok", value |-> v, rest |-> r]

Ok(p) == [tag |-> "Ok", packet |-> p]

(***************************************************************************)
(* parsing.rs: the field parsers.                                          *)
(***************************************************************************)
\* parse_filename returning the remainder without skipping the terminator
parse_filename_keeps_terminator(bytes) ==
    LET t == take_till_null(bytes)
    IN  IF ~t.ok THEN InvalidPacket("Error while parsing filename")
        ELSE IF ~Utf8Valid(t.value)
        THEN InvalidPacket("Error while parsing filename. Not a valid UTF-8 string.")
        ELSE ParseOk(t.value, t.rest)

\* parsing.rs:16-29.  The final &bytes[1..] skips the terminator; it panics
\* (slice start 1 beyond length 0) when take_till_null consumed all the input.
parse_filename(bytes) ==
    LET t == take_till_null(bytes)
    IN  IF ~t.ok THEN InvalidPacket("Error while parsing filename")
        ELSE IF ~Utf8Valid(t.value)
        THEN InvalidPacket("Error while parsing filename. Not a valid UTF-8 string.")
        ELSE IF Len(t.rest) < 1 THEN Panic
        ELSE ParseOk(t.value, Drop(t.rest, 1))

\* parse_mode refusing bytes after the terminator
parse_mode_strict(bytes) ==
    LET t == take_till_null(bytes)
    IN  IF ~t.ok THEN InvalidPacket("Error while parsing mode")
        ELSE IF ~Utf8Valid(t.value)
        THEN InvalidPacket("Error while parsing mode. Not a valid UTF-8 string.")
        ELSE LET m == Mode_try_from(t.value)
             IN  IF m.tag = "Err" \/ Len(t.rest) > 1
                 THEN InvalidPacket("Error while parsing mode. Not a valid mode string.")
                 ELSE ParseOk(m.value, t.rest)

\* parsing.rs:31-46.  The remainder is returned as take_till_null left it.
parse_mode(bytes) ==
    LET t == take_till_null(bytes)
    IN  IF ~t.ok THEN InvalidPacket("Error while parsing mode")
        ELSE IF ~Utf8Valid(t.value)
        THEN InvalidPacket("Error while parsing mode. Not a valid UTF-8 string.")
        ELSE LET m == Mode_try_from(t.value)
             IN  IF m.tag = "Err"
                 THEN InvalidPacket("Error while parsing mode. Not a valid mode string.")
                 ELSE ParseOk(m.value, t.rest)

\* parsing.rs:48-56
parse_block_number(bytes) ==
    LET t == take_u16(bytes)
    IN  IF ~t.ok
        THEN InvalidPacket("Error while parsing block number. Block number not a u16.")
        ELSE ParseOk(t.value, t.rest)

\* parsing.rs:58-72
parse_error_code(bytes) ==
    LET t == take_u16(bytes)
    IN  IF ~t.ok
        THEN InvalidPacket("Error while parsing error code. Error code not a u16.")
        ELSE LET c == ErrorCode_try_from(t.value)
             IN  IF c.tag = "Err"
                 THEN InvalidPacket("Error while parsing error code. Error code not a valid error code.")
                 ELSE ParseOk(c.value, t.rest)

\* parsing.rs:74-87
parse_error_message(bytes) ==
    LET t == take_till_null(bytes)
    IN  IF ~t.ok THEN InvalidPacket("Error while parsing error message")
        ELSE IF ~Utf8Valid(t.value)
        THEN InvalidPacket("Error while parsing error msg. Invalid UTF-8 string.")
        ELSE ParseOk(t.value, t.rest)

(***************************************************************************)
(* lib.rs: the packet and the codec.                                       *)
(***************************************************************************)
Request(tag, f, m) == [tag |-> tag, filename |-> f, mode |-> m]

DATA(n, d) == [tag |-> "DATA", block_number |-> n, data |-> d]

ACK(n) == [tag |-> "ACK", block_number |-> n]

ERROR(c, m) == [tag |-> "ERROR", error_code |-> c, error_msg |-> m]

\* the RRQ and WRQ arms of from_bytes (the same code, building Packet::RRQ or
\* Packet::WRQ); `?` returns an Err as it is, and a panic unwinds through it
from_bytes_request(tag, bytes) ==
    LET f == parse_filename(bytes)
    IN  IF f.tag # "Ok" THEN f
        ELSE LET m == parse_mode(f.rest)
             IN  IF m.tag # "Ok" THEN m
                 ELSE Ok(Request(tag, f.value, m.value))

\* the DATA arm refusing a payload of 512 bytes already
from_bytes_data_ge(bytes) ==
    LET b == parse_block_number(bytes)
    IN  IF b.tag # "Ok" THEN b
        ELSE IF Len(b.rest) >= MaxDataLen THEN InvalidPacketLength(MaxDataLen)
        ELSE Ok(DATA(b.value, b.rest))

\* the DATA arm
from_bytes_data(bytes) ==
    LET b == parse_block_number(bytes)
    IN  IF b.tag # "Ok" THEN b
        ELSE IF Len(b.rest) > MaxDataLen THEN InvalidPacketLength(MaxDataLen)
        ELSE Ok(DATA(b.value, b.rest))

\* the ACK arm ignoring the bytes after the block number
from_bytes_ack_lenient(bytes) ==
    LET b == parse_block_number(bytes)
    IN  IF b.tag # "Ok" THEN b
        ELSE Ok(ACK(b.value))

\* the ACK arm
from_bytes_ack(bytes) ==
    LET b == parse_block_number(bytes)
    IN  IF b.tag # "Ok" THEN b
        ELSE IF b.rest = <<>> THEN Ok(ACK(b.value))
        ELSE InvalidPacketLength(AckLen)

\* the ERROR arm
from_bytes_error(bytes) ==
    LET c == parse_error_code(bytes)
    IN  IF c.tag # "Ok" THEN c
        ELSE LET m == parse_error_message(c.rest)
             IN  IF m.tag # "Ok" THEN m
                 ELSE Ok(ERROR(c.value, m.value))

\* Packet::from_bytes
from_bytes(bytes) ==
    LET t == take_u16(bytes)
    IN  IF ~t.ok
        THEN InvalidOpcode("Error while parsing opcode. Opcode not a u15.")
        ELSE LET o == Opcode_try_from(t.value)
             IN  IF o.tag = "Err"
                 THEN InvalidOpcode("Error while parsing opcode: Invalid opcode: {}")
                 ELSE CASE o.value = "RRQ" -> from_bytes_request("RRQ", t.rest)
                        [] o.value = "WRQ" -> from_bytes_request("WRQ", t.rest)
                        [] o.value = "DATA" -> from_bytes_data(t.rest)
                        [] o.value = "ACK" -> from_bytes_ack(t.rest)
                        [] o.value = "ERROR" -> from_bytes_error(t.rest)

\* Packet::to_bytes
to_bytes(p) ==
    CASE p.tag = "RRQ" ->
           <<0, 1>> \o p.filename \o <<0>> \o Mode_as_str(p.mode) \o <<0>>
      [] p.tag = "WRQ" ->
           <<0, 2>> \o p.filename \o <<0>> \o Mode_as_str(p.mode) \o <<0>>
      [] p.tag = "DATA" ->
           <<0, 3>> \o to_be_bytes(p.block_number) \o p.data
      [] p.tag = "ACK" ->
           <<0, 4>> \o to_be_bytes(p.block_number)
      [] p.tag = "ERROR" ->
           <<0, 5>> \o to_be_bytes(ErrorCode_as_u16(p.error_code)) \o p.error_msg \o <<0>>

(***************************************************************************)
(* The inputs the codec is applied to.                                     *)
(***************************************************************************)
Seqs(S, n) == UNION {[1..k -> S] : k \in 0..n}

\* "C", and the two bytes of U+00E9: 195 169 is well-formed UTF-8, 195 or 169
\* alone is not
TextBytes == {67, 195, 169}

Names == Seqs(TextBytes, MaxText)

\* the three modes, "OCTET", "mai" (a proper prefix) and "octetC" (an extension)
ModeLike ==
    {StrNetascii, StrOctet, StrMail, <<79, 67, 84, 69, 84>>, Take(StrMail, 3),
     StrOctet \o <<67>>}

Fields == Names \cup ModeLike

\* a text field is followed by its terminator, or is not
Seps == {<<>>, <<0>>}

\* no opcode, half an opcode, and the opcodes 0..6 and 256..262
Headers == {<<>>, <<0>>} \cup {<<hi, lo>> : hi \in {0, 1}, lo \in 0..6}

\* the bytes of block numbers and error codes
NumBytes == {0, 1, 7, 8, 255}

Nums == Seqs(NumBytes, 2)

Fill(k) == [i \in 1..k |-> 69]

LongLens == (MaxDataLen - PadSlack)..(MaxDataLen + PadSlack)

\* header, text field, terminator?, text field, terminator?
ReqInputs ==
    {h \o f1 \o s1 \o f2 \o s2 :
        h \in Headers, f1 \in Names, s1 \in Seps, f2 \in Fields, s2 \in Seps}

\* header, up to two bytes of a number, text field, terminator?
NumInputs == {h \o n \o f \o s : h \in Headers, n \in Nums, f \in Names, s \in Seps}

\* DATA, ACK and ERROR headers with a payload around the 512-byte limit
LongInputs ==
    {<<0, op>> \o n \o Fill(k) :
        op \in {3, 4, 5}, n \in {<<0, 42>>, <<255, 255>>}, k \in LongLens}

Inputs == ReqInputs \cup NumInputs \cup LongInputs

\* bytes that follow a datagram
Trailers == {<<0>>, <<67>>, StrOctet \o <<0>>}

\* Rust Strings: well-formed UTF-8, which may hold a zero byte
Strings == {s \in Seqs(TextBytes \cup {0}, MaxText) : Utf8Valid(s)}

BlockNumbers == {0, 42, 255, 256, 65535}

Payloads == Seqs({0, 67, 255}, MaxText) \cup {Fill(k) : k \in LongLens}

Packets ==
    {Request(t, f, m) : t \in {"RRQ", "WRQ"}, f \in Strings, m \in Range(ModeDecl)}
    \cup {DATA(n, d) : n \in BlockNumbers, d \in Payloads}
    \cup {ACK(n) : n \in BlockNumbers}
    \cup {ERROR(c, m) : c \in Range(ErrorCodeDecl), m \in Strings}

Variant(t, v) == [type |-> t, v |-> v]

Variants ==
    {Variant("Opcode", x) : x \in Range(OpcodeDecl)}
    \cup {Variant("ErrorCode", x) : x \in Range(ErrorCodeDecl)}
    \cup {Variant("Mode", x) : x \in Range(ModeDecl)}

U16(n) == [kind |-> "u16", n |-> n, s |-> <<>>]

Str(s) == [kind |-> "str", n |-> 0, s |-> s]

U16Samples == 0..MaxNum \cup {255, 256, 257, 261, 65535}

Wires == {U16(n) : n \in U16Samples} \cup {Str(s) : s \in Fields}

NoPacket == [tag |-> "None"]

NoResult == [tag |-> "None"]

NoVariant == Variant("None", "None")

NoWire == [kind |-> "none", n |-> 0, s |-> <<>>]

NoConv == [type |-> "None"]

(***************************************************************************)
(* The state: one call sequence on the crate's public surface.             *)
(*   phase    what has happened so far                                     *)
(*   input    the bytes given to Packet::from_bytes                        *)
(*   base     the bytes before trailing bytes were appended                *)
(*   packet   the Packet given to Packet::to_bytes                         *)
(*   result   what Packet::from_bytes returned                             *)
(*   prev     what it returned for base                                    *)
(*   variant  the enum variant converted to its wire value                 *)
(*   wire     the u16 or &str given to a try_from                          *)
(*   conv     what the try_from returned                                   *)
(***************************************************************************)
VARIABLES phase, input, base, packet, result, prev, variant, wire, conv

vars == <<phase, input, base, packet, result, prev, variant, wire, conv>>

Init ==
    /\ base = <<>>
    /\ result = NoResult
    /\ prev = NoResult
    /\ conv = NoConv
    /\ \/ /\ phase = "input"
          /\ input \in Inputs
          /\ packet = NoPacket /\ variant = NoVariant /\ wire = NoWire
       \/ /\ phase = "packet"
          /\ packet \in Packets
          /\ input = <<>> /\ variant = NoVariant /\ wire = NoWire
       \/ /\ phase = "wire"
          /\ wire \in Wires
          /\ input = <<>> /\ packet = NoPacket /\ variant = NoVariant
       \/ /\ phase = "variant"
          /\ variant \in Variants
          /\ input = <<>> /\ packet = NoPacket /\ wire = NoWire

\* Packet::from_bytes(&input)
FromBytes ==
    /\ phase = "input"
    /\ result' = from_bytes(input)
    /\ phase' = "decoded"
    /\ UNCHANGED <<input, base, packet, prev, variant, wire, conv>>

\* Packet::from_bytes on the same bytes followed by t
FromBytesWithTrailing ==
    \E t \in Trailers :
        /\ phase = "decoded"
        /\ base' = input
        /\ prev' = result
        /\ input' = input \o t
        /\ result' = from_bytes(input \o t)
        /\ phase' = "extended"
        /\ UNCHANGED <<packet, variant, wire, conv>>

\* packet.to_bytes()
ToBytes ==
    /\ phase = "packet"
    /\ input' = to_bytes(packet)
    /\ phase' = "input"
    /\ UNCHANGED <<base, packet, result, prev, variant, wire, conv>>

\* `x as u16` of an Opcode or ErrorCode, m.as_str() of a Mode
AsWire ==
    /\ phase = "variant"
    /\ wire' = CASE variant.type = "Opcode" -> U16(Opcode_as_u16(variant.v))
                 [] variant.type = "ErrorCode" -> U16(ErrorCode_as_u16(variant.v))
                 [] variant.type = "Mode" -> Str(Mode_as_str(variant.v))
    /\ phase' = "wire"
    /\ UNCHANGED <<input, base, packet, result, prev, variant, conv>>

\* Opcode::try_from(n)
OpcodeTryFrom ==
    /\ phase = "wire"
    /\ wire.kind = "u16"
    /\ conv' = [type |-> "Opcode", r |-> Opcode_try_from(wire.n)]
    /\ phase' = "converted"
    /\ UNCHANGED <<input, base, packet, result, prev, variant, wire>>

\* ErrorCode::try_from(n)
ErrorCodeTryFrom ==
    /\ phase = "wire"
    /\ wire.kind = "u16"
    /\ conv' = [type |-> "ErrorCode", r |-> ErrorCode_try_from(wire.n)]
    /\ phase' = "converted"
    /\ UNCHANGED <<input, base, packet, result, prev, variant, wire>>

\* Mode::try_from(s)
ModeTryFrom ==
    /\ phase = "wire"
    /\ wire.kind = "str"
    /\ conv' = [type |-> "Mode", r |-> Mode_try_from(wire.s)]
    /\ phase' = "converted"
    /\ UNCHANGED <<input, base, packet, result, prev, variant, wire>>

Next ==
    \/ FromBytes
    \/ FromBytesWithTrailing
    \/ ToBytes
    \/ AsWire
    \/ OpcodeTryFrom
    \/ ErrorCodeTryFrom
    \/ ModeTryFrom

Spec == Init /\ [][Next]_vars

(***************************************************************************)
(* Vocabulary of the properties, stated on the bytes and not through the   *)
(* parsers.                                                                *)
(***************************************************************************)
Decoded == phase \in {"decoded", "extended"}

IsErr(r, kind) == r.tag = "Err" /\ r.kind = kind

\* the big-endian value of the two bytes at i and i + 1
BE(s, i) == s[i] * 256 + s[i + 1]

HasOpcode(s, ops) == Len(s) >= 2 /\ s[1] = 0 /\ s[2] \in ops

ZeroCount(s) == Cardinality({i \in 1..Len(s) : s[i] = 0})

NoZero(s) == \A i \in 1..Len(s) : s[i] # 0

\* k is the position in s of the first zero byte
IsFirstZero(s, k) == k \in 1..Len(s) /\ s[k] = 0 /\ \A j \in 1..(k - 1) : s[j] # 0

\* the bytes of s before its first zero byte, all of s when it has none
UpToZero(s) ==
    IF NoZero(s) THEN s ELSE SubSeq(s, 1, (CHOOSE k \in 1..Len(s) : IsFirstZero(s, k)) - 1)

\* the bytes of s after its first zero byte
AfterZero(s) == SubSeq(s, (CHOOSE k \in 1..Len(s) : IsFirstZero(s, k)) + 1, Len(s))

\* the protocol's error codes (RFC 1350)
WireErrorCode ==
    [NotDefined |-> 0, FileNotFound |-> 1, AccessViolation |-> 2, DiskFull |-> 3,
     IllegalOperation |-> 4, UnknownTransferId |-> 5, FileAlreadyExists |-> 6,
     NoSuchUser |-> 7]

\* the protocol's opcodes (RFC 1350)
WireOpcode == [RRQ |-> 1, WRQ |-> 2, DATA |-> 3, ACK |-> 4, ERROR |-> 5]

\* the protocol's mode strings
WireMode ==
    [Netascii |-> <<110, 101, 116, 97, 115, 99, 105, 105>>,
     Octet |-> <<111, 99, 116, 101, 116>>,
     Mail |-> <<109, 97, 105, 108>>]

ModeNames == {"Netascii", "Octet", "Mail"}

\* the data-model invariants of a packet
WellFormed(p) ==
    CASE p.tag \in {"RRQ", "WRQ"} -> NoZero(p.filename)
      [] p.tag = "DATA" -> Len(p.data) <= 512
      [] p.tag = "ACK" -> TRUE
      [] p.tag = "ERROR" -> NoZero(p.error_msg)

(***************************************************************************)
(* C1.  Round trip: decoding the encoding of a packet that satisfies the   *)
(* data-model invariants (no zero byte in its text, at most 512 payload    *)
(* bytes) returns Ok of that packet.                                       *)
(***************************************************************************)
C1_RoundTrip ==
    (phase = "decoded" /\ packet # NoPacket /\ WellFormed(packet))
        => result = Ok(packet)

\* a DATA packet of exactly 512 payload bytes has gone through both functions
C1_Witness ==
    /\ phase = "decoded"
    /\ packet.tag = "DATA"
    /\ Len(packet.data) = 512
    /\ packet.block_number = 65535
    /\ result = Ok(packet)

(***************************************************************************)
(* C2.  Decoding is total: from_bytes returns Ok or Err for every input    *)
(* and never panics.                                                       *)
(***************************************************************************)
C2_DecodeTotal == Decoded => result.tag \in {"Ok", "Err"}

(***************************************************************************)
(* C3.  A missing terminator is rejected: no Ok(Packet) is produced from   *)
(* an RRQ or WRQ with fewer than two zero bytes after the opcode (the      *)
(* filename or the mode lacks its terminator), nor from an ERROR with no   *)
(* zero byte after the error code; the input is refused.                   *)
(***************************************************************************)
MissingTerminator(s) ==
    \/ HasOpcode(s, {1, 2}) /\ ZeroCount(Drop(s, 2)) < 2
    \/ HasOpcode(s, {5}) /\ ZeroCount(Drop(s, 4)) < 1

C3_MissingTerminatorRejected ==
    (Decoded /\ MissingTerminator(input)) => result.tag # "Ok"

(***************************************************************************)
(* C4.  Opcode validation: from_bytes returns Err(InvalidOpcode) exactly   *)
(* when the input is shorter than 2 bytes or its first two bytes, read     *)
(* big-endian, are not in 1..5, whatever follows.                          *)
(***************************************************************************)
C4_OpcodeValidation ==
    Decoded =>
        (IsErr(result, "InvalidOpcode")
            <=> (Len(input) < 2 \/ BE(input, 1) \notin 1..5))

\* opcode 6 followed by a well-formed request body
C4_Witness ==
    /\ phase = "decoded"
    /\ input = <<0, 6, 67, 0>> \o WireMode.Octet \o <<0>>
    /\ IsErr(result, "InvalidOpcode")

(***************************************************************************)
(* C5.  DATA length boundary: opcode 3, a block number and n payload bytes *)
(* decode to Ok(DATA) with that block number and payload when n <= 512 and *)
(* to Err(InvalidPacketLength(512)) when n >= 513; no decoded DATA packet  *)
(* carries more than 512 bytes.                                            *)
(***************************************************************************)
C5_DataBoundary ==
    /\ (Decoded /\ HasOpcode(input, {3}) /\ Len(input) >= 4) =>
          IF Len(input) - 4 <= 512
          THEN result = [tag |-> "Ok",
                         packet |-> [tag |-> "DATA", block_number |-> BE(input, 3),
                                     data |-> SubSeq(input, 5, Len(input))]]
          ELSE IsErr(result, "InvalidPacketLength") /\ result.expected = 512
    /\ (Decoded /\ result.tag = "Ok" /\ result.packet.tag = "DATA") =>
          Len(result.packet.data) <= 512

\* 513 payload bytes have been refused
C5_Witness ==
    /\ phase = "decoded"
    /\ HasOpcode(input, {3})
    /\ Len(input) = 4 + 513
    /\ IsErr(result, "InvalidPacketLength")

(***************************************************************************)
(* C6.  ACK fixed size: with opcode 4, from_bytes returns Ok(ACK) with the *)
(* big-endian block number exactly when the input is 4 bytes long,         *)
(* Err(InvalidPacketLength(4)) when a byte follows the block number, and   *)
(* Err(InvalidPacket) when fewer than 2 bytes follow the opcode.           *)
(***************************************************************************)
C6_AckFixedSize ==
    (Decoded /\ HasOpcode(input, {4})) =>
        /\ Len(input) = 4 =>
              result = [tag |-> "Ok",
                        packet |-> [tag |-> "ACK", block_number |-> BE(input, 3)]]
        /\ Len(input) > 4 =>
              IsErr(result, "InvalidPacketLength") /\ result.expected = 4
        /\ Len(input) < 4 => IsErr(result, "InvalidPacket")
        /\ result.tag = "Ok" => Len(input) = 4

\* one byte after the block number has been refused
C6_Witness ==
    /\ phase = "decoded"
    /\ HasOpcode(input, {4})
    /\ Len(input) = 5
    /\ IsErr(result, "InvalidPacketLength")

(***************************************************************************)
(* C7.  Encode wire layout: to_bytes returns, for every packet, the opcode *)
(* as two big-endian bytes followed by: filename, 0, mode string, 0 (RRQ,  *)
(* WRQ); the block number as two big-endian bytes and the payload verbatim *)
(* whatever its length (DATA); the block number (ACK); the error code as   *)
(* two big-endian bytes, the message, 0 (ERROR).                           *)
(***************************************************************************)
Encoded == phase = "input" /\ packet # NoPacket

\* s holds the bytes f from position i on, followed by a zero byte
HoldsText(s, i, f) ==
    /\ Len(s) >= i + Len(f)
    /\ \A j \in 1..Len(f) : s[i + j - 1] = f[j]
    /\ s[i + Len(f)] = 0

C7_EncodeLayout ==
    Encoded =>
        /\ Len(input) >= 2
        /\ input[1] = 0
        /\ input[2] = WireOpcode[packet.tag]
        /\ packet.tag \in {"RRQ", "WRQ"} =>
              /\ HoldsText(input, 3, packet.filename)
              /\ HoldsText(input, 4 + Len(packet.filename), WireMode[packet.mode])
              /\ Len(input) = 4 + Len(packet.filename) + Len(WireMode[packet.mode])
        /\ packet.tag \in {"DATA", "ACK"} =>
              /\ Len(input) >= 4
              /\ input[3] \in 0..255 /\ input[4] \in 0..255
              /\ BE(input, 3) = packet.block_number
        /\ packet.tag = "DATA" => SubSeq(input, 5, Len(input)) = packet.data
        /\ packet.tag = "ACK" => Len(input) = 4
        /\ packet.tag = "ERROR" =>
              /\ Len(input) >= 4
              /\ input[3] = 0
              /\ input[4] = WireErrorCode[packet.error_code]
              /\ HoldsText(input, 5, packet.error_msg)
              /\ Len(input) = 5 + Len(packet.error_msg)

\* a DATA packet of 513 payload bytes has been encoded, payload unchanged
C7_Witness ==
    /\ Encoded
    /\ packet.tag = "DATA"
    /\ Len(packet.data) = 513
    /\ Len(input) = 517
    /\ SubSeq(input, 5, 517) = packet.data

(***************************************************************************)
(* C8.  Enumeration wire mappings, as claimed: the numeric value of an     *)
(* Opcode is 1..5 and that of an ErrorCode 0..7 in declaration order, and  *)
(* try_from of the numeric value (of the mode string) of a variant returns *)
(* that variant.                                                           *)
(***************************************************************************)
\* the variant has been converted to its wire value, and that value back
RoundTripped(type) ==
    phase = "converted" /\ variant.type = type /\ conv.type = type

C8_NumericValueRoundTrip ==
    /\ (phase = "wire" /\ variant.type = "Opcode") => wire.n = WireOpcode[variant.v]
    /\ (phase = "wire" /\ variant.type = "ErrorCode") => wire.n = WireErrorCode[variant.v]
    /\ \A type \in {"Opcode", "ErrorCode", "Mode"} :
          RoundTripped(type) => conv.r = [tag |-> "Ok", value |-> variant.v]

(***************************************************************************)
(* C8, amended.  The numeric value (`as u16`) of an Opcode is its          *)
(* zero-based declaration index 0..4, one less than its wire value 1..5:   *)
(* Opcode::try_from(n) returns Ok(x) exactly when n is the numeric value   *)
(* of x plus one, that is RRQ for 1, WRQ for 2, DATA for 3, ACK for 4 and  *)
(* ERROR for 5.  The numeric value of an ErrorCode is its wire value 0..7  *)
(* and ErrorCode::try_from of it returns the variant; Mode::try_from of    *)
(* m.as_str() returns m.  Each try_from fails for every other u16 value or *)
(* string.                                                                 *)
(***************************************************************************)
C8_EnumMappings ==
    /\ (phase = "wire" /\ variant.type = "Opcode") =>
          wire.n + 1 = WireOpcode[variant.v]
    /\ (phase = "wire" /\ variant.type = "ErrorCode") =>
          wire.n = WireErrorCode[variant.v]
    /\ (phase = "wire" /\ variant.type = "Mode") =>
          wire.s = WireMode[variant.v]
    /\ (phase = "converted" /\ conv.type = "Opcode") =>
          /\ \A x \in DOMAIN WireOpcode :
                (conv.r = [tag |-> "Ok", value |-> x]) <=> (wire.n = WireOpcode[x])
          /\ conv.r.tag = "Err" <=> wire.n \notin 1..5
    /\ (phase = "converted" /\ conv.type = "ErrorCode") =>
          /\ \A x \in DOMAIN WireErrorCode :
                (conv.r = [tag |-> "Ok", value |-> x]) <=> (wire.n = WireErrorCode[x])
          /\ conv.r.tag = "Err" <=> wire.n \notin 0..7
    /\ (phase = "converted" /\ conv.type = "Mode") =>
          /\ \A m \in ModeNames :
                (conv.r = [tag |-> "Ok", value |-> m]) <=> (wire.s = WireMode[m])
          /\ conv.r.tag = "Err" <=> (\A m \in ModeNames : wire.s # WireMode[m])
    /\ RoundTripped("ErrorCode") => conv.r = [tag |-> "Ok", value |-> variant.v]
    /\ RoundTripped("Mode") => conv.r = [tag |-> "Ok", value |-> variant.v]

\* Opcode::ERROR as u16 is 4, and Opcode::try_from(4) is Ok(Opcode::ACK)
C8_Witness ==
    /\ RoundTripped("Opcode")
    /\ variant.v = "ERROR"
    /\ wire.n = 4
    /\ conv.r = [tag |-> "Ok", value |-> "ACK"]

(***************************************************************************)
(* C9.  Mode validation: an RRQ or WRQ whose filename is terminated and    *)
(* well-formed text decodes to Err(InvalidPacket) when the bytes after the *)
(* filename's terminator, up to the next zero byte, are not exactly        *)
(* "netascii", "octet" or "mail", and to the request with the matching     *)
(* Mode when they are.                                                     *)
(***************************************************************************)
\* the request body of s has a filename that is terminated and valid text
GoodFilename(s) ==
    /\ HasOpcode(s, {1, 2})
    /\ ~NoZero(Drop(s, 2))
    /\ Utf8Valid(UpToZero(Drop(s, 2)))

ModeField(s) == UpToZero(AfterZero(Drop(s, 2)))

C9_ModeValidation ==
    (Decoded /\ GoodFilename(input)) =>
        /\ (\A m \in ModeNames : ModeField(input) # WireMode[m]) =>
              IsErr(result, "InvalidPacket")
        /\ \A m \in ModeNames :
              ModeField(input) = WireMode[m] =>
                  result = [tag |-> "Ok",
                            packet |-> [tag |-> IF input[2] = 1 THEN "RRQ" ELSE "WRQ",
                                        filename |-> UpToZero(Drop(input, 2)),
                                        mode |-> m]]

\* "OCTET" has been refused
C9_Witness ==
    /\ phase = "decoded"
    /\ GoodFilename(input)
    /\ ModeField(input) = <<79, 67, 84, 69, 84>>
    /\ IsErr(result, "InvalidPacket")

(***************************************************************************)
(* C10.  Trailing bytes are ignored: when a terminated RRQ, WRQ or ERROR   *)
(* input (two zero bytes after the opcode, one after the error code)       *)
(* decodes to Ok(p), the same input followed by any bytes decodes to       *)
(* Ok(p) too.                                                              *)
(***************************************************************************)
Terminated(s) ==
    \/ HasOpcode(s, {1, 2}) /\ ZeroCount(Drop(s, 2)) >= 2
    \/ HasOpcode(s, {5}) /\ ZeroCount(Drop(s, 4)) >= 1

C10_TrailingIgnored ==
    (phase = "extended" /\ prev.tag = "Ok" /\ Terminated(base)) => result = prev

\* an ERROR datagram followed by "octet\0" has decoded to the same packet
C10_Witness ==
    /\ phase = "extended"
    /\ prev.tag = "Ok"
    /\ prev.packet.tag = "ERROR"
    /\ Terminated(base)
    /\ Len(input) = Len(base) + 6
    /\ result = prev

====
